---------------------------- MODULE Spec2Model ----------------------------
(***************************************************************************)
(* The incremental cache materialization pipeline of hyperliquid-stats     *)
(* (src/scripts/main.py): the date resolver, the per-date stages           *)
(* fetch -> raw load -> aggregate -> cache write -> cleanup, the alerts    *)
(* and the base/cache consistency check.                                   *)
(*                                                                         *)
(* Modelling conventions                                                   *)
(*  - a calendar date is a positive integer (day number); a raw row's      *)
(*    timestamp is modelled by the date it lies in, which is what          *)
(*    str(...)[:10] keeps of it in the consistency check;                  *)
(*  - a table is [exists, rows]: a missing table and an empty table are    *)
(*    different states of the database;                                    *)
(*  - floats are exact rationals <<numerator, denominator>>;               *)
(*  - every call to the outside (object store, file system, database       *)
(*    statement, alert transport) either takes effect or raises and has    *)
(*    no effect; the number of raised calls in one behaviour is bounded    *)
(*    by MaxFaults;                                                        *)
(*  - the index columns pandas adds when it writes a frame are left out.   *)
(***************************************************************************)
EXTENDS Integers, Sequences, FiniteSets, TLC

(***************************************************************************)
(* Program constants, scaled.  main() looks back timedelta(days=85) when a *)
(* source has no cache data and walks range(24) hourly shards per date.    *)
(* Both only set how many dates and shards one run walks through; the      *)
(* model keeps them as parameters with small values, and every formula is  *)
(* stated relative to them.                                                *)
(***************************************************************************)
LookbackDays == 2

HoursPerDay == 2

(***************************************************************************)
(* Bounds of the model.                                                    *)
(***************************************************************************)
\* pipeline runs (invocations of main) in one behaviour
MaxRuns == 2

\* external calls that raise in one behaviour
MaxFaults == 2

\* direct invocations of update_cache_tables in the CacheSpec behaviours
MaxCalls == 3

\* raw rows of a non_mm_trades partition in the TradesSpec behaviours
MaxTrades == 3

\* levels of an ask ladder in the SlippageSpec behaviours
MaxLevels == 3

(***************************************************************************)
(* Configuration: config["tables"], the instruments returned by the        *)
(* metadata endpoint, the first day of the model's calendar.               *)
(***************************************************************************)
Tables == <<"funding", "market_data">>

Assets == <<"BTC">>

Today0 == LookbackDays + 1

NoDate == 0

table_to_file_name_map ==
    [t \in {"funding", "market_data", "asset_ctxs", "hlp_positions"} |-> t]

CacheOf(table) == IF table = "funding" THEN "funding_cache" ELSE "market_data_cache"

TableNames == {"funding", "funding_cache", "market_data", "market_data_cache"}

IsCacheName(name) == name \in {"funding_cache", "market_data_cache"}

IsMarketName(name) == name \in {"market_data", "market_data_cache"}

(***************************************************************************)
(* Sequences.                                                              *)
(***************************************************************************)
RECURSIVE SeqSum(_)
SeqSum(s) == IF s = <<>> THEN 0 ELSE Head(s) + SeqSum(Tail(s))

Range(s) == {s[i] : i \in 1..Len(s)}

(***************************************************************************)
(* Exact rationals standing for Python floats.                             *)
(***************************************************************************)
RECURSIVE GCD(_, _)
GCD(a, b) == IF b = 0 THEN a ELSE GCD(b, a % b)

Abs(x) == IF x < 0 THEN 0 - x ELSE x

Norm(n, d) ==
    LET g == GCD(Abs(n), Abs(d))
        s == IF d < 0 THEN 0 - 1 ELSE 1
    IN  IF n = 0 THEN <<0, 1>> ELSE <<s * (n \div g), s * (d \div g)>>

Rat(n) == <<n, 1>>

RAdd(a, b) ==
    LET g == GCD(a[2], b[2])
    IN  Norm(a[1] * (b[2] \div g) + b[1] * (a[2] \div g), a[2] * (b[2] \div g))

RNeg(a) == <<0 - a[1], a[2]>>

RSub(a, b) == RAdd(a, RNeg(b))

RMul(a, b) ==
    LET x == Norm(a[1], b[2])
        y == Norm(b[1], a[2])
    IN  Norm(x[1] * y[1], x[2] * y[2])

RDiv(a, b) == RMul(a, IF b[1] < 0 THEN <<0 - b[2], 0 - b[1]>> ELSE <<b[2], b[1]>>)

RAbs(a) == <<Abs(a[1]), a[2]>>

RLeq(a, b) == RSub(a, b)[1] <= 0

RECURSIVE RSum(_)
RSum(s) == IF s = <<>> THEN Rat(0) ELSE RAdd(Head(s), RSum(Tail(s)))

\* insertion of x into the ascending sequence s
RECURSIVE RInsert(_, _)
RInsert(x, s) ==
    IF s = <<>> THEN <<x>>
    ELSE IF RLeq(x, Head(s)) THEN <<x>> \o s
         ELSE <<Head(s)>> \o RInsert(x, Tail(s))

RECURSIVE RSort(_)
RSort(s) == IF s = <<>> THEN <<>> ELSE RInsert(Head(s), RSort(Tail(s)))

\* pandas Series.median(): the middle value, or the mean of the two middle ones
Median(s) ==
    LET o == RSort(s)
        n == Len(o)
    IN  IF n % 2 = 1 THEN o[(n + 1) \div 2]
        ELSE RDiv(RAdd(o[n \div 2], o[n \div 2 + 1]), Rat(2))

\* pandas Series.mean()
Mean(s) == RDiv(RSum(s), Rat(Len(s)))


(***************************************************************************)
(* The partitions of the object store.  A partition's content is a fixed   *)
(* function of its key: fetching the same key twice gives the same rows.   *)
(***************************************************************************)
Coins == <<"BTC", "ETH">>

\* funding/{date:%Y%m%d}.csv.lz4, decoded by pd.read_csv
FundingPartition(date) ==
    << [time |-> date, coin |-> "BTC", funding |-> 1, premium |-> 2],
       [time |-> date, coin |-> "ETH", funding |-> 3, premium |-> 1],
       [time |-> date, coin |-> "BTC", funding |-> 2, premium |-> date] >>

Level(px, sz) == [px |-> px, sz |-> sz]

\* market_data/{date:%Y%m%d}/{hour}/l2Book/{asset}.lz4, one snapshot per line;
\* levels = <<bid ladder, ask ladder>>
ShardSnapshots(date, hour, asset) ==
    IF hour = 0
    THEN << [coin |-> asset,
             levels |-> << <<Level(998, 1)>>, <<Level(1000, 1), Level(1002, 5)>> >>],
            [coin |-> asset,
             levels |-> << <<Level(996, 2)>>, <<Level(1000, 4)>> >>] >>
    ELSE << [coin |-> asset,
             levels |-> << <<Level(998, 2), Level(990, hour)>>, <<Level(1000, 3)>> >>] >>

FileName(table, date, hour, asset) ==
    IF table_to_file_name_map[table] = "market_data"
    THEN <<"market_data", date, hour, "l2Book", asset>>
    ELSE <<table_to_file_name_map[table], date>>

(***************************************************************************)
(* SlippageEngine.                                                         *)
(***************************************************************************)
ntl_values == << <<1, 100>>, Rat(1000), Rat(3000), Rat(10000), Rat(30000), Rat(100000) >>

\* the loop of calculate_slippage over ask_levels[i..]; acc = <<average_executed_price,
\* filled_liquidity>>
RECURSIVE WalkAsks(_, _, _, _)
WalkAsks(ask_levels, i, acc, total_liquidity_needed) ==
    IF i > Len(ask_levels) THEN acc
    ELSE LET level == ask_levels[i]
             liquidity == Rat(level.px * level.sz)
             price == Rat(level.px)
         IN  IF RLeq(total_liquidity_needed, RAdd(acc[2], liquidity))
             THEN LET remaining_liquidity == RSub(total_liquidity_needed, acc[2])
                      liquidity_percentage_filled ==
                          RDiv(remaining_liquidity, total_liquidity_needed)
                  IN  << RAdd(acc[1], RMul(liquidity_percentage_filled, price)),
                         total_liquidity_needed >>
             ELSE LET liquidity_percentage_filled == RDiv(liquidity, total_liquidity_needed)
                  IN  WalkAsks(ask_levels, i + 1,
                               << RAdd(acc[1], RMul(liquidity_percentage_filled, price)),
                                  RAdd(acc[2], liquidity) >>,
                               total_liquidity_needed)

\* "filled_liquidity > total_liquidity_needed" in line 167
calculate_slippage_strict(r, n) ==
    LET acc == WalkAsks(r.levels[2], 1, <<Rat(0), Rat(0)>>, n)
    IN  IF ~RLeq(acc[2], n)
        THEN RAbs(RSub(RDiv(acc[1], r.mid), Rat(1)))
        ELSE Rat(1)

calculate_slippage(row, ntl_value) ==
    LET ask_levels == row.levels[2]
        acc == WalkAsks(ask_levels, 1, <<Rat(0), Rat(0)>>, ntl_value)
    IN  IF RLeq(ntl_value, acc[2])
        THEN RAbs(RSub(RDiv(acc[1], row.mid), Rat(1)))
        ELSE Rat(1)

(***************************************************************************)
(* Aggregator.                                                             *)
(***************************************************************************)
\* the per-line record and the derived columns of update_market_data_cache
SnapshotRow(snap) ==
    LET highest_bid == snap.levels[1][1].px
        lowest_ask == snap.levels[2][1].px
        all == snap.levels[1] \o snap.levels[2]
    IN  [coin |-> snap.coin,
         levels |-> snap.levels,
         liquidity |-> Rat(SeqSum([k \in 1..Len(all) |-> all[k].px * all[k].sz])),
         mid |-> RDiv(Rat(highest_bid + lowest_ask), Rat(2))]

\* df.groupby(['time', 'coin']).agg(...) of update_market_data_cache: one row per
\* coin of the frame, keys in sorted order
MarketAggregate(snaps, date) ==
    LET df == [k \in 1..Len(snaps) |-> SnapshotRow(snaps[k])]
        present == SelectSeq(Coins, LAMBDA c : \E k \in 1..Len(df) : df[k].coin = c)
        Group(c) == SelectSeq(df, LAMBDA r : r.coin = c)
    IN  [g \in 1..Len(present) |->
            LET rows == Group(present[g])
            IN  [time |-> date,
                 coin |-> present[g],
                 median_liquidity |-> Median([k \in 1..Len(rows) |-> rows[k].liquidity]),
                 median_slippage |->
                     [n \in 1..Len(ntl_values) |->
                         Median([k \in 1..Len(rows) |->
                                    calculate_slippage(rows[k], ntl_values[n])])],
                 mid_price |-> Mean([k \in 1..Len(rows) |-> rows[k].mid])]]

\* the "funding" branch of update_cache_tables: groupby coin, sum funding, sum premium
FundingAggregate(df, date) ==
    LET present == SelectSeq(Coins, LAMBDA c : \E k \in 1..Len(df) : df[k].coin = c)
        Group(c) == SelectSeq(df, LAMBDA r : r.coin = c)
    IN  [g \in 1..Len(present) |->
            LET rows == Group(present[g])
            IN  [coin |-> present[g],
                 sum_funding |-> SeqSum([k \in 1..Len(rows) |-> rows[k].funding]),
                 sum_premium |-> SeqSum([k \in 1..Len(rows) |-> rows[k].premium]),
                 time |-> date]]

(***************************************************************************)
(* CacheWriter: update_db_table.  An outcome says which of its database    *)
(* statements take effect: del (DELETE), app (to_sql append), rd (the      *)
(* fallback's read_sql), wr (the fallback's to_sql replace).               *)
(***************************************************************************)
NoTable == [exists |-> FALSE, rows |-> <<>>]

RowsOn(tbl, date) == SelectSeq(tbl.rows, LAMBDA r : r.time = date)

\* the DELETE also issued for market_data_cache
ClearsDateAlsoMarket(table_name) == IsCacheName(table_name)

\* "cache" in table_name and "market_data" not in table_name
ClearsDate(table_name) == IsCacheName(table_name) /\ ~IsMarketName(table_name)

\* the DELETE without its where clause
DeleteEveryDate(tbl, date) == [tbl EXCEPT !.rows = <<>>]

\* DELETE FROM table where time = date; raises when the table does not exist
DeleteDate(tbl, date) == [tbl EXCEPT !.rows = SelectSeq(tbl.rows, LAMBDA r : r.time # date)]

update_db_table(tbl, table_name, df, date, o) ==
    LET cleared == IF ClearsDate(table_name) /\ tbl.exists /\ o.del
                   THEN DeleteDate(tbl, date)
                   ELSE tbl
    IN  IF o.app
        THEN [raised |-> FALSE, tbl |-> [exists |-> TRUE, rows |-> cleared.rows \o df]]
        ELSE IF cleared.exists /\ o.rd /\ o.wr
             THEN [raised |-> FALSE, tbl |-> [exists |-> TRUE, rows |-> cleared.rows \o df]]
             ELSE [raised |-> TRUE, tbl |-> cleared]

\* the statements of an outcome that raise although the table is there
Cost(o) == (IF o.del THEN 0 ELSE 1) + (IF o.app THEN 0 ELSE 1)
           + (IF o.rd THEN 0 ELSE 1) + (IF o.wr THEN 0 ELSE 1)

\* the outcomes update_db_table can meet on tbl with at most budget raising
\* statements; a statement that is not executed is recorded as TRUE
DbOutcomes(tbl, table_name, budget) ==
    { o \in [del : BOOLEAN, app : BOOLEAN, rd : BOOLEAN, wr : BOOLEAN] :
        /\ Cost(o) <= budget
        /\ (~o.del) => (ClearsDate(table_name) /\ tbl.exists)
        /\ (~o.rd) => (~o.app /\ tbl.exists)
        /\ (~o.wr) => (~o.app /\ o.rd /\ tbl.exists) }


(***************************************************************************)
(* The inputs of the specifications of single functions.                   *)
(***************************************************************************)
\* no snapshot yet
NoRow == [coin |-> "", levels |-> << <<>>, <<>> >>, liquidity |-> <<0, 1>>,
          mid |-> <<0, 1>>]

\* no partition decoded yet
NoFrame == [has_tif |-> TRUE, rows |-> <<>>]

\* the sources whose process_file the concurrent specification runs
Sources == {"funding", "asset_ctxs", "hlp_positions"}

(***************************************************************************)
(* The state.                                                              *)
(***************************************************************************)
VARIABLES
    today,       \* datetime.date.today(), fixed during a run
    run,         \* invocations of main() so far
    faults,      \* external calls that raised so far
    db,          \* the database: table name -> [exists, rows]
    staging,     \* the files under ../tmp
    pc,          \* where main() is
    ti,          \* index in config["tables"] of the source being processed
    todo,        \* the dates of dates[1:] not yet begun
    cur,         \* the date being processed
    hour,        \* market data: the i of "for i in range(24)"
    ai,          \* market data: index of the asset in asset_coin_map.values()
    alerts,      \* the messages send_alert was called with in this run
    crashCause,  \* the send_alert call whose exception ended main(), "" if none
    startMax,    \* history: the cache max date the resolver saw (NoDate: none)
    resolved,    \* history: the list generate_dates returned
    attempted,   \* history: the dates begun for the current source in this run
    failed,      \* history: <<table, date>> whose process_file raised in this run
    prevFailed,  \* history: the same for the previous run
    cacheSnap,   \* history: the source's cache table when cur was begun
    written,     \* history: the market-data shards whose cache write took effect
    tried,       \* history: the market-data shards <<date, hour, asset index>>
                 \* process_file was called for in this run
    shardFailed, \* history: the shards whose process_file raised in this run
    prevShardFailed, \* history: the same for the previous run
    baseSnap,    \* history: the source's base table when the resolver began
    loaded,      \* history: the dates whose raw rows this run put in the base table
    stages,      \* history: the stages of process_file that took effect for cur,
                 \* "raised" where process_file raised
    fetchFailed, \* history: the dates of this run whose download raised, with the
                 \* rows the base and the cache table held for the date then
    calls,       \* CacheSpec: invocations of update_cache_tables so far
    firstRows,   \* CacheSpec: <<file name, rows of its date after the first run>>
    df,          \* TradesSpec: the decoded non_mm_trades partition
    df_agg,      \* TradesSpec: the frame handed to update_db_table
    row,         \* SlippageSpec: the snapshot handed to calculate_slippage
    ntl_value,   \* SlippageSpec: the target notional
    slippage,    \* SlippageSpec: what calculate_slippage returned
    cpc          \* ConcSpec: source -> the step its process_file is at

vars == << today, run, faults, db, staging, pc, ti, todo, cur, hour, ai, alerts,
           crashCause, startMax, resolved, attempted, failed, prevFailed,
           cacheSnap, written, tried, shardFailed, prevShardFailed, baseSnap,
           loaded, stages, fetchFailed, calls, firstRows, df, df_agg, row,
           ntl_value, slippage, cpc >>

table == Tables[ti]

IsMarket == table_to_file_name_map[table] = "market_data"

file_name == FileName(table, cur, hour, Assets[ai])

Budget == MaxFaults - faults

(***************************************************************************)
(* Helpers of main().                                                      *)
(***************************************************************************)
Max(S) == CHOOSE x \in S : \A y \in S : y <= x

\* SELECT max(time) FROM table; None when the query raises (no such table) or
\* the table has no rows
get_latest_date(tbl) ==
    IF tbl.exists /\ tbl.rows # <<>>
    THEN Max({tbl.rows[k].time : k \in 1..Len(tbl.rows)})
    ELSE NoDate

generate_dates(start_date, end_date) ==
    [x \in 1..(IF end_date - start_date + 1 > 0 THEN end_date - start_date + 1 ELSE 0)
        |-> start_date + (x - 1)]

\* "for date in dates" instead of "for date in dates[1:]"
RestKeepsFirst(dates) == dates

\* dates[1:]
Rest(dates) == IF dates = <<>> THEN <<>> ELSE Tail(dates)

\* DROP TABLE without its effect
drop_base_table_kept(tbl) == tbl

\* DROP TABLE IF EXISTS table
drop_base_table(tbl) == NoTable

market_data_exists(date) == RowsOn(db["market_data_cache"], date) # <<>>

Alert(kind, tbl, date, other) == [kind |-> kind, table |-> tbl, date |-> date, other |-> other]

\* what the transport of send_alert does: it posts, it raises SlackApiError
\* (caught in send_alert), or it raises anything else (not caught there)
AlertOutcomes == {"ok", "SlackApiError"} \cup (IF Budget > 0 THEN {"error"} ELSE {})

\* a SlackApiError ends inside send_alert; only an escaping exception is counted
AlertCost(o) == IF o = "error" THEN 1 ELSE 0

MayFail == IF Budget > 0 THEN {TRUE, FALSE} ELSE {TRUE}

\* the shard after (hour, ai) in "for i in range(24): for asset in ...", or the
\* end of the two loops
LastShard == ai = Len(Assets) /\ hour = HoursPerDay - 1

NextHour == IF ai = Len(Assets) THEN hour + 1 ELSE hour

NextAi == IF ai = Len(Assets) THEN 1 ELSE ai + 1

\* process_file returned: the shard loop goes on, or the date is reported
Returned ==
    IF IsMarket /\ ~LastShard
    THEN pc' = "download" /\ hour' = NextHour /\ ai' = NextAi
    ELSE pc' = "alert_ok" /\ UNCHANGED <<hour, ai>>

\* process_file line 391 left out: the cache is updated right after the download
AfterDownloadSkipsLoad == "cache"

\* process_file lines 390-391: load_data_to_db follows download_data_from_s3
AfterDownload == "load"

\* a handler that calls process_file again for the date
RaisedRetries ==
    /\ pc' = "download"
    /\ failed' = failed \cup {<<table, cur>>}
    /\ UNCHANGED <<hour, ai, shardFailed>>

\* no handler around the shard: its exception reaches the handler of the date
RaisedAbortsDate ==
    /\ pc' = "alert_fail"
    /\ failed' = failed \cup {<<table, cur>>}
    /\ shardFailed' = IF IsMarket THEN shardFailed \cup {<<cur, hour, ai>>}
                      ELSE shardFailed
    /\ UNCHANGED <<hour, ai>>

\* process_file raised: the inner handler of a shard prints and goes on, the
\* handler of the date alerts
Raised ==
    IF IsMarket
    THEN /\ Returned
         /\ shardFailed' = shardFailed \cup {<<cur, hour, ai>>}
         /\ UNCHANGED failed
    ELSE /\ pc' = "alert_fail"
         /\ failed' = failed \cup {<<table, cur>>}
         /\ UNCHANGED <<hour, ai, shardFailed>>

\* no function of the single-function specifications has been given an input
PureIdle ==
    /\ df = NoFrame
    /\ df_agg = <<>>
    /\ row = NoRow
    /\ ntl_value = Rat(0)
    /\ slippage = Rat(0)
    /\ cpc = [s \in Sources |-> "idle"]

\* the pipeline before its first run, main() at start
Core(start) ==
    /\ today = Today0
    /\ run = 0
    /\ faults = 0
    /\ db = [n \in TableNames |-> NoTable]
    /\ staging = {}
    /\ pc = start
    /\ ti = 1
    /\ todo = <<>>
    /\ cur = NoDate
    /\ hour = 0
    /\ ai = 1
    /\ alerts = <<>>
    /\ crashCause = ""
    /\ startMax = NoDate
    /\ resolved = <<>>
    /\ attempted = <<>>
    /\ failed = {}
    /\ prevFailed = {}
    /\ cacheSnap = NoTable
    /\ written = <<>>
    /\ tried = <<>>
    /\ shardFailed = {}
    /\ prevShardFailed = {}
    /\ baseSnap = NoTable
    /\ loaded = <<>>
    /\ stages = <<>>
    /\ fetchFailed = {}
    /\ calls = 0
    /\ firstRows = {}

InitAt(start) == Core(start) /\ PureIdle

\* nothing is deployed yet: no table, no staging file, main() not yet invoked
Init == InitAt("idle")

\* the variables of the specifications of single functions
pureVars == <<df, df_agg, row, ntl_value, slippage, cpc>>

cacheVars == <<calls, firstRows, pureVars>>

(***************************************************************************)
(* main(), one action per step.                                            *)
(***************************************************************************)
\* the scheduler invokes main(); the previous invocation returned or died, the
\* same day or the day before.  Line 421: get_asset_coin_map is called before the
\* loop over the sources, and an exception of its request leaves main()
StartRun ==
    /\ pc \in {"idle", "crashed"}
    /\ run < MaxRuns
    /\ run' = run + 1
    /\ today' \in (IF run = 0 THEN {today} ELSE {today, today + 1})
    /\ \E got \in MayFail :
          /\ faults' = faults + (IF got THEN 0 ELSE 1)
          /\ pc' = IF got THEN "resolve" ELSE "crashed"
          /\ crashCause' = IF got THEN "" ELSE "meta"
    /\ ti' = 1
    /\ alerts' = <<>>
    /\ prevFailed' = failed
    /\ failed' = {}
    /\ attempted' = <<>>
    /\ tried' = <<>>
    /\ prevShardFailed' = shardFailed
    /\ shardFailed' = {}
    /\ fetchFailed' = {}
    /\ UNCHANGED <<db, staging, todo, cur, hour, ai, startMax, resolved,
                   cacheSnap, written, baseSnap, loaded, stages,
                   cacheVars>>

\* lines 424-435: the resolver
ResolveDates ==
    /\ pc = "resolve"
    /\ LET latest_date == get_latest_date(db[CacheOf(table)])
           start == IF latest_date = NoDate THEN today - LookbackDays ELSE latest_date
           dates == generate_dates(start, today)
       IN  /\ startMax' = latest_date
           /\ \E dropped \in (IF latest_date = NoDate THEN MayFail ELSE {TRUE}) :
                 IF ~dropped
                 THEN /\ faults' = faults + 1
                      /\ pc' = "crashed"
                      /\ crashCause' = "drop"
                      /\ resolved' = <<>>
                      /\ todo' = <<>>
                      /\ UNCHANGED <<db, alerts>>
                 ELSE /\ db' = IF latest_date = NoDate
                               THEN [db EXCEPT ![table] = drop_base_table(db[table])]
                               ELSE db
                      /\ resolved' = dates
                      /\ todo' = Rest(dates)
                      /\ \E o \in (IF dates = <<>> THEN AlertOutcomes ELSE {"ok"}) :
                            /\ faults' = faults + AlertCost(o)
                            /\ alerts' = IF dates = <<>>
                                         THEN Append(alerts,
                                                     Alert("nothing", table, start, NoDate))
                                         ELSE alerts
                            /\ pc' = IF o = "error" THEN "crashed" ELSE "date"
                            /\ crashCause' = IF o = "error" THEN "resolve" ELSE crashCause
    /\ attempted' = <<>>
    /\ baseSnap' = db[table]
    /\ loaded' = <<>>
    /\ UNCHANGED <<today, run, staging, ti, cur, hour, ai, failed, prevFailed,
                   cacheSnap, written, tried, shardFailed, prevShardFailed, stages, fetchFailed,
                   cacheVars>>

\* line 436 with lines 438-441: the next date of dates[1:]
BeginDate ==
    /\ pc = "date"
    /\ todo # <<>>
    /\ cur' = Head(todo)
    /\ todo' = Tail(todo)
    /\ attempted' = Append(attempted, Head(todo))
    /\ cacheSnap' = db[CacheOf(table)]
    /\ hour' = 0
    /\ ai' = 1
    /\ stages' = <<>>
    /\ IF IsMarket /\ market_data_exists(Head(todo))
       THEN \E o \in AlertOutcomes :
               /\ faults' = faults + AlertCost(o)
               /\ alerts' = Append(alerts, Alert("exists", table, Head(todo), NoDate))
               /\ pc' = IF o = "error" THEN "alert_fail" ELSE "date"
       ELSE /\ pc' = "download"
            /\ UNCHANGED <<faults, alerts>>
    /\ UNCHANGED <<today, run, db, staging, ti, crashCause, startMax, resolved,
                   failed, prevFailed, written, tried, shardFailed, prevShardFailed,
                   baseSnap, loaded, fetchFailed,
                   cacheVars>>

\* the loop over dates[1:] is over
EndDates ==
    /\ pc = "date"
    /\ todo = <<>>
    /\ pc' = "check"
    /\ UNCHANGED <<today, run, faults, db, staging, ti, todo, cur, hour, ai, alerts,
                   crashCause, startMax, resolved, attempted, failed, prevFailed,
                   cacheSnap, written, tried, shardFailed, prevShardFailed, baseSnap,
                   loaded, stages, fetchFailed,
                   cacheVars>>

\* process_file line 390: download_data_from_s3
Download ==
    /\ pc = "download"
    /\ \E ok \in MayFail :
          IF ok
          THEN /\ staging' = staging \cup {file_name}
               /\ pc' = AfterDownload
               /\ stages' = Append(stages, "fetch")
               /\ UNCHANGED <<faults, failed, hour, ai, shardFailed, fetchFailed>>
          ELSE /\ faults' = faults + 1
               /\ Raised
               /\ stages' = Append(stages, "raised")
               /\ fetchFailed' =
                     IF IsMarket THEN fetchFailed
                     ELSE fetchFailed \cup
                             {[table |-> table, date |-> cur,
                               base |-> RowsOn(db[table], cur),
                               cache |-> RowsOn(db[CacheOf(table)], cur)]}
               /\ UNCHANGED staging
    /\ tried' = IF IsMarket THEN Append(tried, <<cur, hour, ai>>) ELSE tried
    /\ UNCHANGED <<today, run, db, ti, todo, cur, alerts, crashCause, startMax,
                   resolved, attempted, prevFailed, cacheSnap, written,
                   prevShardFailed, baseSnap, loaded, cacheVars>>

\* process_file line 391: load_data_to_db
LoadRaw ==
    /\ pc = "load"
    /\ IF IsMarket
       THEN /\ pc' = "cache"
            /\ UNCHANGED <<faults, db, failed, hour, ai, shardFailed, loaded, stages>>
       ELSE \E decoded \in MayFail :
               IF ~decoded
               THEN /\ faults' = faults + 1
                    /\ Raised
                    /\ stages' = Append(stages, "raised")
                    /\ UNCHANGED <<db, loaded>>
               ELSE \E o \in DbOutcomes(db[table], table, Budget) :
                       LET r == update_db_table(db[table], table,
                                                FundingPartition(cur), cur, o)
                       IN  /\ faults' = faults + Cost(o)
                           /\ db' = [db EXCEPT ![table] = r.tbl]
                           /\ stages' = Append(stages, IF r.raised THEN "raised"
                                                              ELSE "load")
                           /\ IF r.raised
                              THEN Raised /\ UNCHANGED loaded
                              ELSE /\ pc' = "cache"
                                   /\ loaded' = Append(loaded, cur)
                                   /\ UNCHANGED <<failed, hour, ai, shardFailed>>
    /\ UNCHANGED <<today, run, staging, ti, todo, cur, alerts, crashCause, startMax,
                   resolved, attempted, prevFailed, cacheSnap, written, tried,
                   prevShardFailed, baseSnap, fetchFailed,
                   cacheVars>>

\* the dates a behaviour can reach
ModelDates == 1..(Today0 + MaxRuns)

\* update_market_data_cache on every shard, tabulated: aggregated_df
ShardFrame ==
    [date \in ModelDates |->
        [h \in 0..(HoursPerDay - 1) |->
            [i \in 1..Len(Assets) |->
                MarketAggregate(ShardSnapshots(date, h, Assets[i]), date)]]]

\* update_cache_tables: the frame it hands to update_db_table
CacheFrame(tbl, date, h, i) ==
    IF table_to_file_name_map[tbl] = "market_data"
    THEN ShardFrame[date][h][i]
    ELSE FundingAggregate(FundingPartition(date), date)

\* process_file line 392: update_cache_tables
UpdateCache ==
    /\ pc = "cache"
    /\ \E computed \in MayFail :
          IF ~computed
          THEN /\ faults' = faults + 1
               /\ Raised
               /\ stages' = Append(stages, "raised")
               /\ UNCHANGED <<db, written>>
          ELSE \E o \in DbOutcomes(db[CacheOf(table)], CacheOf(table), Budget) :
                  LET r == update_db_table(db[CacheOf(table)], CacheOf(table),
                                           CacheFrame(table, cur, hour, ai),
                                           cur, o)
                  IN  /\ faults' = faults + Cost(o)
                      /\ db' = [db EXCEPT ![CacheOf(table)] = r.tbl]
                      /\ stages' = stages \o <<"aggregate",
                                               IF r.raised THEN "raised" ELSE "write">>
                      /\ IF r.raised
                         THEN Raised /\ UNCHANGED written
                         ELSE /\ pc' = "cleanup"
                              /\ written' = IF IsMarket
                                            THEN Append(written, <<cur, hour, ai>>)
                                            ELSE written
                              /\ UNCHANGED <<failed, hour, ai, shardFailed>>
    /\ UNCHANGED <<today, run, staging, ti, todo, cur, alerts, crashCause, startMax,
                   resolved, attempted, prevFailed, cacheSnap, tried,
                   prevShardFailed, baseSnap, loaded, fetchFailed,
                   cacheVars>>

\* process_file lines 393-399: the staging file is removed
Cleanup ==
    /\ pc = "cleanup"
    /\ \E removed \in MayFail :
          IF file_name \in staging /\ removed
          THEN /\ staging' = staging \ {file_name}
               /\ Returned
               /\ stages' = Append(stages, "cleanup")
               /\ UNCHANGED <<faults, failed, shardFailed>>
          ELSE /\ faults' = faults + (IF removed THEN 0 ELSE 1)
               /\ Raised
               /\ stages' = Append(stages, "raised")
               /\ UNCHANGED staging
    /\ UNCHANGED <<today, run, db, ti, todo, cur, alerts, crashCause, startMax,
                   resolved, attempted, prevFailed, cacheSnap, written, tried,
                   prevShardFailed, baseSnap, loaded, fetchFailed,
                   cacheVars>>

\* lines 458-459; an exception of send_alert is caught by the handler of line 460
AlertSuccess ==
    /\ pc = "alert_ok"
    /\ \E o \in AlertOutcomes :
          /\ faults' = faults + AlertCost(o)
          /\ alerts' = Append(alerts, Alert("success", table, cur, NoDate))
          /\ pc' = IF o = "error" THEN "alert_fail" ELSE "date"
    /\ UNCHANGED <<today, run, db, staging, ti, todo, cur, hour, ai, crashCause,
                   startMax, resolved, attempted, failed, prevFailed, cacheSnap,
                   written, tried, shardFailed, prevShardFailed, baseSnap, loaded,
                   stages, fetchFailed,
                   cacheVars>>

\* lines 460-464; an exception of send_alert leaves main()
AlertFailure ==
    /\ pc = "alert_fail"
    /\ \E o \in AlertOutcomes :
          /\ faults' = faults + AlertCost(o)
          /\ alerts' = Append(alerts, Alert("failed", table, cur, NoDate))
          /\ pc' = IF o = "error" THEN "crashed" ELSE "date"
          /\ crashCause' = IF o = "error" THEN "handler" ELSE crashCause
    /\ UNCHANGED <<today, run, db, staging, ti, todo, cur, hour, ai, startMax,
                   resolved, attempted, failed, prevFailed, cacheSnap, written,
                   tried, shardFailed, prevShardFailed, baseSnap, loaded, stages, fetchFailed,
                   cacheVars>>

\* line 468: the condition of the divergence alert
Diverges(cache_max_date, base_max_date) ==
    cache_max_date # NoDate /\ cache_max_date # base_max_date

\* lines 466-471, then the next source or the end of main()
ConsistencyCheck ==
    /\ pc = "check"
    /\ LET cache_max_date == get_latest_date(db[CacheOf(table)])
           base_max_date == get_latest_date(db[table])
           sent == Diverges(cache_max_date, base_max_date)
       IN  \E o \in (IF sent THEN AlertOutcomes ELSE {"ok"}) :
              /\ faults' = faults + AlertCost(o)
              /\ alerts' = IF sent
                           THEN Append(alerts, Alert("diverge", table, cache_max_date,
                                                     base_max_date))
                           ELSE alerts
              /\ crashCause' = IF o = "error" THEN "check" ELSE crashCause
              /\ IF o = "error"
                 THEN pc' = "crashed" /\ UNCHANGED ti
                 ELSE IF ti < Len(Tables)
                      THEN pc' = "resolve" /\ ti' = ti + 1
                      ELSE pc' = "idle" /\ UNCHANGED ti
    /\ UNCHANGED <<today, run, db, staging, todo, cur, hour, ai, startMax, resolved,
                   attempted, failed, prevFailed, cacheSnap, written, tried,
                   shardFailed, prevShardFailed, baseSnap, loaded, stages, fetchFailed,
                   cacheVars>>

Next ==
    \/ StartRun
    \/ ResolveDates
    \/ BeginDate
    \/ EndDates
    \/ Download
    \/ LoadRaw
    \/ UpdateCache
    \/ Cleanup
    \/ AlertSuccess
    \/ AlertFailure
    \/ ConsistencyCheck

Spec == Init /\ [][Next]_vars


(***************************************************************************)
(* update_cache_tables invoked directly, any number of times on any        *)
(* partition: the Aggregator + CacheWriter path on its own.  A market-data *)
(* date has one shard here, so a date names its partition file.  The last  *)
(* invocation is kept in ti, cur (its arguments), cacheSnap (the cache     *)
(* table before it) and failed (not empty when it raised).                 *)
(***************************************************************************)
CacheInit == InitAt("direct")

CacheDates == 1..Today0

SameKey(e, tbl, date) == e.table = tbl /\ e.date = date

UpdateCacheTables ==
    /\ pc = "direct"
    /\ calls < MaxCalls
    /\ calls' = calls + 1
    /\ \E i \in 1..Len(Tables), date \in CacheDates :
          LET tbl == Tables[i]
              cache == CacheOf(tbl)
          IN  \E o \in DbOutcomes(db[cache], cache, Budget) :
                 LET r == update_db_table(db[cache], cache,
                                          CacheFrame(tbl, date, 0, 1), date, o)
                     known == \E e \in firstRows : SameKey(e, tbl, date)
                 IN  /\ faults' = faults + Cost(o)
                     /\ db' = [db EXCEPT ![cache] = r.tbl]
                     /\ ti' = i
                     /\ cur' = date
                     /\ cacheSnap' = db[cache]
                     /\ failed' = IF r.raised THEN {<<tbl, date>>} ELSE {}
                     /\ firstRows' =
                           IF r.raised
                           THEN {e \in firstRows : ~SameKey(e, tbl, date)}
                           ELSE IF known THEN firstRows
                           ELSE firstRows \cup
                                   {[table |-> tbl, date |-> date,
                                     rows |-> RowsOn(r.tbl, date)]}
    /\ UNCHANGED <<today, run, staging, pc, todo, hour, ai, alerts, crashCause,
                   startMax, resolved, attempted, prevFailed, written, tried,
                   shardFailed, prevShardFailed, baseSnap, loaded, stages,
                   fetchFailed, pureVars>>

CacheNext == UpdateCacheTables

CacheSpec == CacheInit /\ [][CacheNext]_vars

(***************************************************************************)
(* The "trades" branch of update_cache_tables on its own: a decoded        *)
(* partition df = [has_tif, rows] is aggregated into df_agg.  has_tif says *)
(* whether the file has a tif column; a missing value of the column is     *)
(* NaN.  The other key columns have no missing value.                      *)
(***************************************************************************)
NaN == "NaN"

\* the values of the key columns in the order groupby sorts them
Users == <<"A", "B">>

TifOrder == <<"Gtc", "LiquidationMarket", "Na">>

TradeRow(user, tif, px, sz) ==
    [user |-> user, coin |-> "X", side |-> "B", crossed |-> TRUE,
     special_trade_type |-> "Na", tif |-> tif, px |-> px, sz |-> sz]

\* pd.read_csv of a non_mm_trades partition: any rows of the domain, in any order
TradePartitions ==
    LET withTif == {TradeRow(u, t, px, 2) :
                       u \in Range(Users), t \in {"Gtc", "LiquidationMarket", NaN},
                       px \in {10, 20}}
        noTif == {TradeRow(u, "", px, 2) : u \in Range(Users), px \in {10, 20}}
    IN  UNION {{[has_tif |-> TRUE, rows |-> r] : r \in [1..n -> withTif]}
                  \cup {[has_tif |-> FALSE, rows |-> r] : r \in [1..n -> noTif]}
               : n \in 1..MaxTrades}

\* lines 263-265: df["tif"] = "Gtc" without the column, fillna("Na") with it
NormaliseTif(d) ==
    [k \in 1..Len(d.rows) |->
        [d.rows[k] EXCEPT !.tif = IF ~d.has_tif THEN "Gtc"
                                  ELSE IF @ = NaN THEN "Na" ELSE @]]

Key6(r) == <<r.user, r.coin, r.side, r.crossed, r.special_trade_type, r.tif>>

Key5(r) == <<r.user, r.coin, r.side, r.crossed, r.special_trade_type>>

\* the where of a row's liquidated_volume replaced by the volume itself
liquidated_volume_always(usd_volume, tif) == usd_volume

\* line 287: usd_volume.where(tif == "LiquidationMarket", 0.0)
liquidated_volume(usd_volume, tif) ==
    IF tif = "LiquidationMarket" THEN usd_volume ELSE Rat(0)

\* lines 266-287.  groupby(...).agg(...).reset_index() gives one row per group,
\* the groups in sorted key order, with the index 0..G-1.  transform("count")
\* gives a series on the index of df: for raw row k the number of raw rows with
\* the 5 keys of row k.  The assignment of line 282 aligns the two on the index:
\* row g of df_agg gets the value the series has for raw row g.
TradesAggregate(d, date) ==
    LET rows == NormaliseTif(d)
        AllKeys == [k \in 1..(Len(Users) * Len(TifOrder)) |->
                       <<Users[((k - 1) \div Len(TifOrder)) + 1],
                         TifOrder[((k - 1) % Len(TifOrder)) + 1]>>]
        present == SelectSeq(AllKeys, LAMBDA key :
                       \E k \in 1..Len(rows) :
                           rows[k].user = key[1] /\ rows[k].tif = key[2])
        transform == [k \in 1..Len(rows) |->
                         Cardinality({j \in 1..Len(rows) : Key5(rows[j]) = Key5(rows[k])})]
    IN  [g \in 1..Len(present) |->
            LET grp == SelectSeq(rows, LAMBDA r :
                           r.user = present[g][1] /\ r.tif = present[g][2])
                mean_px == Mean([k \in 1..Len(grp) |-> Rat(grp[k].px)])
                sum_sz == SeqSum([k \in 1..Len(grp) |-> grp[k].sz])
                usd_volume == RMul(mean_px, Rat(sum_sz))
            IN  [user |-> grp[1].user, coin |-> grp[1].coin, side |-> grp[1].side,
                 crossed |-> grp[1].crossed,
                 special_trade_type |-> grp[1].special_trade_type,
                 tif |-> grp[1].tif,
                 mean_px |-> mean_px,
                 sum_sz |-> sum_sz,
                 group_count |-> transform[g],
                 time |-> date,
                 usd_volume |-> usd_volume,
                 liquidated_volume |-> liquidated_volume(usd_volume, grp[1].tif)]]

TradesInit ==
    /\ Core("trades")
    /\ df \in TradePartitions
    /\ df_agg = <<>>
    /\ row = NoRow
    /\ ntl_value = Rat(0)
    /\ slippage = Rat(0)
    /\ cpc = [s \in Sources |-> "idle"]

pipelineVars ==
    <<today, run, faults, db, staging, ti, todo, cur, hour, ai, alerts, crashCause,
      startMax, resolved, attempted, failed, prevFailed, cacheSnap, written, tried,
      shardFailed, prevShardFailed, baseSnap, loaded, stages, fetchFailed, calls,
      firstRows>>

AggregateTrades ==
    /\ pc = "trades"
    /\ df_agg' = TradesAggregate(df, today)
    /\ pc' = "trades_done"
    /\ UNCHANGED <<pipelineVars, df, row, ntl_value, slippage, cpc>>

TradesNext == AggregateTrades

TradesSpec == TradesInit /\ [][TradesNext]_vars

(***************************************************************************)
(* calculate_slippage on its own: a snapshot with any ask ladder of at     *)
(* least one level and any of the notionals of ntl_values.                 *)
(***************************************************************************)
AskLadders ==
    UNION {[1..n -> {Level(px, sz) : px \in {1000, 2000}, sz \in {1, 2}}]
              : n \in 1..MaxLevels}

SnapshotInputs ==
    {SnapshotRow([coin |-> "BTC", levels |-> << <<Level(998, 1)>>, asks >>])
        : asks \in AskLadders}

SlippageInit ==
    /\ Core("slippage")
    /\ row \in SnapshotInputs
    /\ ntl_value \in Range(ntl_values)
    /\ slippage = Rat(0)
    /\ df = NoFrame
    /\ df_agg = <<>>
    /\ cpc = [s \in Sources |-> "idle"]

CalculateSlippage ==
    /\ pc = "slippage"
    /\ slippage' = calculate_slippage(row, ntl_value)
    /\ pc' = "slippage_done"
    /\ UNCHANGED <<pipelineVars, df, df_agg, row, ntl_value, cpc>>

SlippageNext == CalculateSlippage

SlippageSpec == SlippageInit /\ [][SlippageNext]_vars

(***************************************************************************)
(* update_market_data_cache on one decoded snapshot, lines 195-210: the    *)
(* top of the book is read, then the slippage column of one notional is    *)
(* computed.  The snapshot has any ask ladder of 0..MaxLevels levels and a *)
(* bid ladder of 0 or 1 level; row holds it as decoded, its mid not yet    *)
(* derived.                                                                *)
(***************************************************************************)
\* lines 178-194: the record of a decoded line
DecodedRow(snap) ==
    LET all == snap.levels[1] \o snap.levels[2]
    IN  [coin |-> snap.coin,
         levels |-> snap.levels,
         liquidity |-> Rat(SeqSum([k \in 1..Len(all) |-> all[k].px * all[k].sz])),
         mid |-> Rat(0)]

DecodedInputs ==
    {DecodedRow([coin |-> "BTC", levels |-> <<bids, asks>>])
        : bids \in {<<>>, <<Level(998, 1)>>}, asks \in AskLadders \cup {<<>>}}

\* lines 199-200: json.loads(levels)[0][0] and json.loads(levels)[1][0] raise
\* IndexError on an empty ladder
HasTopOfBook(r) == r.levels[1] # <<>> /\ r.levels[2] # <<>>

DepthInit ==
    /\ Core("depth")
    /\ row \in DecodedInputs
    /\ ntl_value \in Range(ntl_values)
    /\ slippage = Rat(0)
    /\ df = NoFrame
    /\ df_agg = <<>>
    /\ cpc = [s \in Sources |-> "idle"]

ComputeSnapshot ==
    /\ pc = "depth"
    /\ IF HasTopOfBook(row)
       THEN /\ row' = SnapshotRow([coin |-> row.coin, levels |-> row.levels])
            /\ slippage' = calculate_slippage(row', ntl_value)
            /\ pc' = "depth_done"
       ELSE /\ pc' = "depth_raised"
            /\ UNCHANGED <<row, slippage>>
    /\ UNCHANGED <<pipelineVars, df, df_agg, ntl_value, cpc>>

DepthNext == ComputeSnapshot

DepthSpec == DepthInit /\ [][DepthNext]_vars

(***************************************************************************)
(* process_file of several sources for the same date, run concurrently:    *)
(* one process per source of Sources, each at its own step cpc[s], all on  *)
(* the one staging directory.  No call raises on its own here: a step      *)
(* raises only when the file it opens or removes is not there.  A source's *)
(* tables are written by its own process alone, the base table by the step *)
(* "load" and the cache table by the step "cache", always with the rows of *)
(* the partition; so cpc[s] tells what the source's tables hold.           *)
(***************************************************************************)
\* the staging file of the source's partition of today
OwnFile(s) == FileName(s, today, 0, Assets[1])

\* asset_ctxs_fln of process_file and generate_hlp_positions
CtxFile == FileName("asset_ctxs", today, 0, Assets[1])

NeedsCtx(s) == s = "hlp_positions"

\* the files update_cache_tables opens for the source
CacheReads(s) == IF NeedsCtx(s) THEN {CtxFile, OwnFile(s)} ELSE {OwnFile(s)}

ConcInit ==
    /\ Core("conc")
    /\ PureIdle

\* what a step of process_file leaves alone
concFrame ==
    <<today, run, faults, db, ti, todo, cur, hour, ai, alerts, crashCause, startMax,
      resolved, attempted, failed, prevFailed, cacheSnap, written, tried,
      shardFailed, prevShardFailed, baseSnap, loaded, stages, fetchFailed, calls,
      firstRows, pc, df, df_agg, row, ntl_value, slippage>>

\* process_file is called for the source
CStart(s) ==
    /\ pc = "conc"
    /\ cpc[s] = "idle"
    /\ cpc' = [cpc EXCEPT ![s] = IF NeedsCtx(s) THEN "download_ctx" ELSE "download"]
    /\ UNCHANGED <<staging, concFrame>>

\* lines 386-388
CDownloadCtx(s) ==
    /\ pc = "conc"
    /\ cpc[s] = "download_ctx"
    /\ staging' = staging \cup {CtxFile}
    /\ cpc' = [cpc EXCEPT ![s] = "download"]
    /\ UNCHANGED concFrame

\* line 390
CDownload(s) ==
    /\ pc = "conc"
    /\ cpc[s] = "download"
    /\ staging' = staging \cup {OwnFile(s)}
    /\ cpc' = [cpc EXCEPT ![s] = "load"]
    /\ UNCHANGED concFrame

\* line 391: load_data_to_db opens the staging file and appends to the base table
CLoad(s) ==
    /\ pc = "conc"
    /\ cpc[s] = "load"
    /\ cpc' = [cpc EXCEPT ![s] = IF OwnFile(s) \in staging THEN "cache"
                                  ELSE "raised_load"]
    /\ UNCHANGED staging
    /\ UNCHANGED concFrame

\* line 392: update_cache_tables opens its files and writes the cache table
CCache(s) ==
    /\ pc = "conc"
    /\ cpc[s] = "cache"
    /\ cpc' = [cpc EXCEPT ![s] = IF CacheReads(s) \subseteq staging THEN "isfile"
                                  ELSE "raised_cache"]
    /\ UNCHANGED staging
    /\ UNCHANGED concFrame

\* lines 393-394 and 398-399
CIsFile(s) ==
    /\ pc = "conc"
    /\ cpc[s] = "isfile"
    /\ cpc' = [cpc EXCEPT ![s] = IF OwnFile(s) \in staging THEN "remove"
                                  ELSE "raised_cleanup"]
    /\ UNCHANGED staging
    /\ UNCHANGED concFrame

\* line 395
CRemove(s) ==
    /\ pc = "conc"
    /\ cpc[s] = "remove"
    /\ IF OwnFile(s) \in staging
       THEN /\ staging' = staging \ {OwnFile(s)}
            /\ cpc' = [cpc EXCEPT ![s] = IF NeedsCtx(s) THEN "remove_ctx" ELSE "done"]
       ELSE /\ cpc' = [cpc EXCEPT ![s] = "raised_cleanup"]
            /\ UNCHANGED staging
    /\ UNCHANGED concFrame

\* lines 396-397
CRemoveCtx(s) ==
    /\ pc = "conc"
    /\ cpc[s] = "remove_ctx"
    /\ IF CtxFile \in staging
       THEN /\ staging' = staging \ {CtxFile}
            /\ cpc' = [cpc EXCEPT ![s] = "done"]
       ELSE /\ cpc' = [cpc EXCEPT ![s] = "raised_cleanup"]
            /\ UNCHANGED staging
    /\ UNCHANGED concFrame

ConcNext ==
    \/ \E s \in Sources : CStart(s)
    \/ \E s \in Sources : CDownloadCtx(s)
    \/ \E s \in Sources : CDownload(s)
    \/ \E s \in Sources : CLoad(s)
    \/ \E s \in Sources : CCache(s)
    \/ \E s \in Sources : CIsFile(s)
    \/ \E s \in Sources : CRemove(s)
    \/ \E s \in Sources : CRemoveCtx(s)

ConcSpec == ConcInit /\ [][ConcNext]_vars

(***************************************************************************)
(* The claims.                                                             *)
(***************************************************************************)
\* C1: idempotence of cache materialization: for every source, market_data
\* included, and every date D, once update_cache_tables has run on the partition
\* of D without raising, every further such run leaves the cache rows of D equal
\* to the rows present after the first one.
C1_CacheIdempotent ==
    \A e \in firstRows : RowsOn(db[CacheOf(e.table)], e.date) = e.rows

\* the snapshots of the shards of date whose cache write took effect
RECURSIVE DaySnapshots(_, _)
DaySnapshots(shards, date) ==
    IF shards = <<>> THEN <<>>
    ELSE (IF Head(shards)[1] = date
          THEN ShardSnapshots(Head(shards)[1], Head(shards)[2], Assets[Head(shards)[3]])
          ELSE <<>>) \o DaySnapshots(Tail(shards), date)

\* one aggregated row-set per shard, in the order of the writes
RECURSIVE ShardRows(_)
ShardRows(shards) ==
    IF shards = <<>> THEN <<>>
    ELSE ShardFrame[Head(shards)[1]][Head(shards)[2]][Head(shards)[3]]
         \o ShardRows(Tail(shards))

C3_ResolverWithPriorState ==
    (startMax # NoDate /\ pc \notin {"idle", "resolve", "direct"}) =>
        /\ \A k \in 1..Len(attempted) : attempted[k] = startMax + k /\ attempted[k] <= today
        /\ pc = "check" => Len(attempted) = today - startMax

C3_Witness ==
    /\ pc = "check"
    /\ startMax # NoDate
    /\ Len(attempted) >= 2

\* C4: with no cache data, the first date processed in the run is
\* today - LookbackDays, and the processed dates run from there through today.
C4_FirstDateIsLookback ==
    (startMax = NoDate /\ pc \notin {"idle", "resolve", "direct"}) =>
        /\ attempted # <<>> => attempted[1] = today - LookbackDays
        /\ pc = "check" => attempted = generate_dates(today - LookbackDays, today)

\* C5: the base table of a non-market-data source never holds the raw rows of a
\* date's partition more than once.
C5_RawRowsLoadedOnce ==
    \A date \in ModelDates :
        Len(RowsOn(db["funding"], date)) <= Len(FundingPartition(date))

\* C6: a (source, date) whose processing failed in the previous run is processed
\* again in this run.
C6_FailedDateRetried ==
    (pc = "check" /\ run >= 2) =>
        \A f \in prevFailed : f[1] = table => f[2] \in Range(attempted)

\* C7 as stated: when date D failed for the source, no later date is begun for the
\* source in the same run.
C7_LaterDatesUnattempted ==
    \A f \in failed :
        f[1] = table => \A k \in 1..Len(attempted) : attempted[k] <= f[2]

\* C7 as amended: when the processing of date D fails for the source, at any
\* stage, the cache rows of the dates earlier than D are the ones that were there
\* when D was begun.
C7_EarlierRowsIntact ==
    (pc = "alert_fail" /\ <<table, cur>> \in failed) =>
        \A date \in ModelDates :
            date < cur => RowsOn(db[CacheOf(table)], date) = RowsOn(cacheSnap, date)

C7_Witness ==
    /\ pc = "alert_fail"
    /\ <<table, cur>> \in failed
    /\ RowsOn(db[CacheOf(table)], cur) # <<>>
    /\ \E date \in ModelDates : date < cur /\ RowsOn(db[CacheOf(table)], date) # <<>>

\* C8: an exception raised while a date of a non-market-data source is processed
\* does not end the run, and an alert naming the source and the date is sent.
C8_FailureIsolated ==
    /\ (pc = "crashed" /\ crashCause = "handler") => <<table, cur>> \notin failed
    /\ \A f \in failed :
          \/ f = <<table, cur>> /\ pc = "alert_fail"
          \/ Alert("failed", f[1], f[2], NoDate) \in Range(alerts)

\* C9: a failure of the alert transport never ends main(), and never makes a date
\* whose processing did not fail be reported as failed.
C9_AlertBestEffort ==
    /\ ~(pc = "crashed" /\ crashCause \in {"resolve", "handler", "check"})
    /\ \A k \in 1..Len(alerts) :
          alerts[k].kind = "failed" => <<alerts[k].table, alerts[k].date>> \in failed

\* the consistency check of source i has been made in this run
Checked(i) == i < ti \/ (i = ti /\ pc = "idle" /\ run > 0)

\* C10: after the dates of a non-market-data source are processed, the divergence
\* alert has been sent exactly when the cache max date differs from the base max
\* date, a table without rows having none, and it carries both dates.
C10_DivergenceAlert ==
    \A i \in 1..Len(Tables) :
        (Checked(i) /\ table_to_file_name_map[Tables[i]] # "market_data") =>
            LET cache_max == get_latest_date(db[CacheOf(Tables[i])])
                base_max == get_latest_date(db[Tables[i]])
            IN  (cache_max # base_max)
                   <=> Alert("diverge", Tables[i], cache_max, base_max) \in Range(alerts)

\* C11: no base/cache max-date divergence alert is ever sent for the market_data
\* source, whatever market_data_cache contains.
C11_MarketDataExempt ==
    \A k \in 1..Len(alerts) :
        alerts[k].kind = "diverge" => table_to_file_name_map[alerts[k].table] # "market_data"

\* the shards of a date in the order of "for i in range(24): for asset in ..."
AllShards(date) ==
    [k \in 1..(HoursPerDay * Len(Assets)) |->
        <<date, (k - 1) \div Len(Assets), ((k - 1) % Len(Assets)) + 1>>]

\* C15: when process_file raised for a shard of the market-data date D, every
\* shard of D has been attempted in this run, once and in the order of the loops,
\* when the processing of D ends, and market_data_cache then holds the aggregated
\* rows of every shard of D whose process_file did not raise.
C15_ShardIsolation ==
    (IsMarket /\ pc \in {"alert_ok", "alert_fail"} /\ \E s \in shardFailed : s[1] = cur) =>
        /\ SelectSeq(tried, LAMBDA s : s[1] = cur) = AllShards(cur)
        /\ \A s \in Range(AllShards(cur)) \ shardFailed :
              \A r \in Range(ShardFrame[s[1]][s[2]][s[3]]) :
                  r \in Range(db["market_data_cache"].rows)

C15_Witness ==
    /\ IsMarket
    /\ pc = "alert_ok"
    /\ <<cur, 0, 1>> \in shardFailed
    /\ <<cur, HoursPerDay - 1, Len(Assets)>> \notin shardFailed
    /\ RowsOn(db["market_data_cache"], cur) # <<>>

\* the raw rows of the partitions of the dates, in this order
RECURSIVE PartitionRows(_)
PartitionRows(dates) ==
    IF dates = <<>> THEN <<>>
    ELSE FundingPartition(Head(dates)) \o PartitionRows(Tail(dates))

\* C16: when the resolver found no data in the cache table of a non-market-data
\* source and the run went on past the drop of the base table, the base table
\* holds exactly the raw rows that this run loaded for the source, from the first
\* load of the run to the end of the source's processing.
C16_BaseOnlyThisRun ==
    (/\ startMax = NoDate
     /\ ~IsMarket
     /\ pc \in {"date", "download", "load", "cache", "cleanup", "alert_ok",
                "alert_fail", "check", "crashed"}
     /\ ~(pc = "crashed" /\ crashCause \in {"drop", "meta"})) =>
        db[table].rows = PartitionRows(loaded)

C16_Witness ==
    /\ pc = "check"
    /\ ~IsMarket
    /\ startMax = NoDate
    /\ baseSnap.rows # <<>>
    /\ loaded # <<>>

\* C18: a market-data date with a shard whose process_file raised is not
\* reported as processed successfully unless an alert about the failure of the
\* date is sent as well.
C18_ShardFailureAlerted ==
    \A k \in 1..Len(alerts) :
        (/\ alerts[k].kind = "success"
         /\ table_to_file_name_map[alerts[k].table] = "market_data"
         /\ \E s \in shardFailed : s[1] = alerts[k].date) =>
            Alert("failed", alerts[k].table, alerts[k].date, NoDate) \in Range(alerts)

\* C19: a market-data shard whose process_file raised in the previous run has
\* been attempted again when the market-data dates of this run are done.
C19_FailedShardRetried ==
    (pc = "check" /\ IsMarket /\ run >= 2) =>
        \A s \in prevShardFailed : s \in Range(tried)

\* C20: for a cache table other than market_data_cache, after update_db_table
\* on date D returned without raising, the rows of D are exactly the new frame
\* and the rows of every other date are the ones stored before the call.
C20_ReplaceByDate ==
    (pc = "direct" /\ calls > 0 /\ ClearsDate(CacheOf(table)) /\ failed = {}) =>
        /\ RowsOn(db[CacheOf(table)], cur) = CacheFrame(table, cur, 0, 1)
        /\ \A date \in CacheDates \ {cur} :
              RowsOn(db[CacheOf(table)], date) = RowsOn(cacheSnap, date)

\* C12: for every partition of raw trade rows, in any order and with any number
\* of groups, the group_count of each row of the aggregated frame is the number
\* of raw rows of that row's own group (user, coin, side, crossed,
\* special_trade_type, tif).
C12_GroupCount ==
    pc = "trades_done" =>
        \A g \in 1..Len(df_agg) :
            df_agg[g].group_count
                = Cardinality({k \in 1..Len(df.rows) :
                                  Key6(NormaliseTif(df)[k]) = Key6(df_agg[g])})

\* C13: for each group of raw trade rows sharing (user, coin, side, crossed,
\* special_trade_type, tif) the aggregated frame has exactly one row, with
\* mean_px the mean of px, sum_sz the sum of sz, usd_volume = mean_px * sum_sz and
\* liquidated_volume = usd_volume for tif LiquidationMarket and 0 otherwise; a
\* partition without tif column is aggregated with every row in one tif category.
C13_TradesValues ==
    pc = "trades_done" =>
        LET rows == NormaliseTif(df)
            keys == {Key6(rows[k]) : k \in 1..Len(rows)}
        IN  /\ Len(df_agg) = Cardinality(keys)
            /\ \A key \in keys :
                  \E g \in 1..Len(df_agg) :
                     LET grp == SelectSeq(rows, LAMBDA r : Key6(r) = key)
                         mean == Mean([k \in 1..Len(grp) |-> Rat(grp[k].px)])
                         sum == SeqSum([k \in 1..Len(grp) |-> grp[k].sz])
                     IN  /\ Key6(df_agg[g]) = key
                         /\ df_agg[g].mean_px = mean
                         /\ df_agg[g].sum_sz = sum
                         /\ df_agg[g].usd_volume = RMul(mean, Rat(sum))
                         /\ df_agg[g].liquidated_volume
                               = (IF key[6] = "LiquidationMarket"
                                  THEN RMul(mean, Rat(sum)) ELSE Rat(0))
            /\ ~df.has_tif =>
                  /\ df_agg # <<>>
                  /\ \A g \in 1..Len(df_agg) : df_agg[g].tif = "Gtc"

C13_Witness ==
    /\ pc = "trades_done"
    /\ Len(df.rows) = 3
    /\ Len(df_agg) = 2
    /\ \E g \in 1..Len(df_agg) :
          /\ df_agg[g].tif = "LiquidationMarket"
          /\ df_agg[g].mean_px = Rat(15)
          /\ df_agg[g].sum_sz = 4
          /\ df_agg[g].liquidated_volume = Rat(60)

\* sum of px * sz over the levels of a ladder
Notional(levels) == Rat(SeqSum([k \in 1..Len(levels) |-> levels[k].px * levels[k].sz]))

\* the average price of the function when every level is consumed in full: each
\* level's price weighted by its share px * sz / N of the notional
FullConsumption(levels, n) ==
    RSum([k \in 1..Len(levels) |->
             RMul(RDiv(Rat(levels[k].px * levels[k].sz), n), Rat(levels[k].px))])

\* C14: for a snapshot with a non-empty ask ladder and a target notional N,
\* calculate_slippage returns 1 when the total ask notional is below N, and when
\* it equals N it returns |avg_price / mid - 1| with avg_price from consuming
\* every ask level in full.
C14_SlippageBoundary ==
    pc = "slippage_done" =>
        LET asks == row.levels[2]
            total == Notional(asks)
        IN  /\ (total # ntl_value /\ RLeq(total, ntl_value)) => slippage = Rat(1)
            /\ total = ntl_value =>
                  slippage = RAbs(RSub(RDiv(FullConsumption(asks, ntl_value), row.mid),
                                       Rat(1)))

C14_Witness ==
    /\ pc = "slippage_done"
    /\ Len(row.levels[2]) >= 2
    /\ Notional(row.levels[2]) = ntl_value
    /\ slippage # Rat(1)

\* C17: when process_file of different sources runs concurrently for a date,
\* in every interleaving of their steps each source ends as it does alone: no step
\* raises, its base and cache tables are written and its staging file is removed.
C17_ConcurrentIndependence ==
    \A s \in Sources : cpc[s] \notin {"raised_load", "raised_cache", "raised_cleanup"}

\* the stages of process_file for a partition of the source: load_data_to_db
\* returns at once for market data (lines 67-68)
StageOrder(tbl) ==
    IF table_to_file_name_map[tbl] = "market_data"
    THEN <<"fetch", "aggregate", "write", "cleanup">>
    ELSE <<"fetch", "load", "aggregate", "write", "cleanup">>

\* log goes through the stages of order from stage i on, each partition up to
\* its cleanup or up to the stage that raised; a further partition only follows
\* when the date has several (repeats)
RECURSIVE Staged(_, _, _, _)
Staged(log, i, order, repeats) ==
    IF log = <<>> THEN TRUE
    ELSE IF Head(log) = "raised" \/ (Head(log) = order[i] /\ i = Len(order))
         THEN Tail(log) = <<>> \/ (repeats /\ Staged(Tail(log), 1, order, repeats))
         ELSE Head(log) = order[i] /\ Staged(Tail(log), i + 1, order, repeats)

\* the last partition of the log has reached its cleanup or has raised
Closed(log) == log # <<>> => log[Len(log)] \in {"cleanup", "raised"}

InDate == pc \in {"download", "load", "cache", "cleanup", "alert_ok", "alert_fail"}

C22_FetchFailureNoEffect ==
    \A f \in fetchFailed :
        /\ RowsOn(db[f.table], f.date) = f.base
        /\ RowsOn(db[CacheOf(f.table)], f.date) = f.cache
        /\ f.table = table =>
              /\ Cardinality({k \in 1..Len(attempted) : attempted[k] = f.date}) = 1
              /\ f.date = cur => stages = <<"raised">>
        /\ \/ pc = "alert_fail" /\ f.table = table /\ f.date = cur
           \/ Alert("failed", f.table, f.date, NoDate) \in Range(alerts)

C22_Witness ==
    /\ pc = "check"
    /\ \E f \in fetchFailed :
          /\ f.base # <<>>
          /\ Alert("failed", f.table, f.date, NoDate) \in Range(alerts)

\* C23: for every snapshot, a snapshot with an empty ask or bid ladder included,
\* and every notional N of ntl_values that the ask ladder cannot supply, the
\* computation does not raise and the slippage recorded for N is 1.
C23_ThinBookIsNoError ==
    (/\ pc \in {"depth_done", "depth_raised"}
     /\ Notional(row.levels[2]) # ntl_value
     /\ RLeq(Notional(row.levels[2]), ntl_value)) =>
        pc = "depth_done" /\ slippage = Rat(1)

\* the size bought when the ladder is walked from level i on until the notional n
\* is paid, filled being paid already: the whole size of a level consumed in
\* full, the part (n - filled) / px of the level that completes n
RECURSIVE SizeBought(_, _, _, _)
SizeBought(levels, i, filled, n) ==
    IF i > Len(levels) THEN Rat(0)
    ELSE LET liquidity == Rat(levels[i].px * levels[i].sz)
         IN  IF RLeq(n, RAdd(filled, liquidity))
             THEN RDiv(RSub(n, filled), Rat(levels[i].px))
             ELSE RAdd(Rat(levels[i].sz),
                       SizeBought(levels, i + 1, RAdd(filled, liquidity), n))

\* C24: for every ask ladder and every notional N the ladder can supply, the
\* average price calculate_slippage divides by mid is the volume-weighted average
\* fill price: N divided by the size bought.
C24_AveragePriceIsVwap ==
    (pc = "slippage_done" /\ RLeq(ntl_value, Notional(row.levels[2]))) =>
        slippage = RAbs(RSub(RDiv(RDiv(ntl_value,
                                       SizeBought(row.levels[2], 1, Rat(0), ntl_value)),
                                  row.mid),
                             Rat(1)))

\* C25: whenever the resolver leaves no date to process for a source in a run,
\* a 'nothing to process' notice has been emitted for the source when its dates
\* are done.
C25_NothingToProcessNoticed ==
    (pc = "check" /\ Rest(resolved) = <<>>) =>
        \E k \in 1..Len(alerts) : alerts[k].kind = "nothing" /\ alerts[k].table = table

\* C26: when the 'completed successfully' alert of (D, source) has just been
\* sent, the cache table of the source holds rows of D and a cache write of this
\* run for D took effect.
C26_SuccessMeansRows ==
    (/\ pc = "date"
     /\ alerts # <<>>
     /\ alerts[Len(alerts)] = Alert("success", table, cur, NoDate)) =>
        /\ RowsOn(db[CacheOf(table)], cur) # <<>>
        /\ "write" \in Range(stages)

\* C27: whatever the statements of update_db_table do, a cache table other than
\* market_data_cache never holds for a date more rows than one aggregated frame of
\* the date: never a stored row-set of D together with the newly inserted one.
C27_NoOldAndNewRows ==
    \A date \in CacheDates :
        Len(RowsOn(db["funding_cache"], date)) <= Len(CacheFrame("funding", date, 0, 1))

\* C28: when main() met a failure outside the loop over the dates that concerns
\* one source (the instrument list, needed by market_data only; the drop of the
\* base table, the resolver's notice or the consistency check of the source at
\* hand), every other configured source has been processed in the run.
C28_OtherSourcesProcessed ==
    (pc = "crashed" /\ crashCause \in {"meta", "drop", "resolve", "check"}) =>
        \A i \in 1..Len(Tables) :
            (IF crashCause = "meta"
             THEN table_to_file_name_map[Tables[i]] # "market_data"
             ELSE i # ti) => i < ti

=============================================================================
